---- MODULE Spec2Model ----
\* Model of config/settings.go: the layered configuration resolver
\* (environment variable > INI file value > caller default).
\*
\* Go strings are sequences of one-character strings, so that trimming,
\* splitting, case mapping, formatting and parsing are computed and not assumed.
EXTENDS Integers, Sequences, FiniteSets, TLC

\* ---------------------------------------------------------------- strings

LowerLetters == <<"a","b","c","d","e","f","g","h","i","j","k","l","m",
                  "n","o","p","q","r","s","t","u","v","w","x","y","z">>

UpperLetters == <<"A","B","C","D","E","F","G","H","I","J","K","L","M",
                  "N","O","P","Q","R","S","T","U","V","W","X","Y","Z">>

Digits == <<"0","1","2","3","4","5","6","7","8","9">>

Range(f) == { f[i] : i \in DOMAIN f }

IndexIn(c, t) == CHOOSE i \in DOMAIN t : t[i] = c

\* unicode.ToUpper / unicode.ToLower on one character
UpperChar(c) == IF c \in Range(LowerLetters) THEN UpperLetters[IndexIn(c, LowerLetters)] ELSE c

LowerChar(c) == IF c \in Range(UpperLetters) THEN LowerLetters[IndexIn(c, UpperLetters)] ELSE c

\* strings.ToUpper
ToUpper(s) == [i \in DOMAIN s |-> UpperChar(s[i])]

\* strings.ToLower
ToLower(s) == [i \in DOMAIN s |-> LowerChar(s[i])]

\* unicode.IsSpace on the characters a line of text can hold
IsSpace(c) == c \in {" ", "\t", "\r"}

\* strings.TrimLeft(s, cutset), strings.TrimRight(s, cutset), strings.Trim(s, cutset)
RECURSIVE TrimLeft(_, _)
TrimLeft(s, cutset) ==
    IF s # <<>> /\ Head(s) \in cutset THEN TrimLeft(Tail(s), cutset) ELSE s

RECURSIVE TrimRight(_, _)
TrimRight(s, cutset) ==
    IF s # <<>> /\ s[Len(s)] \in cutset
    THEN TrimRight(SubSeq(s, 1, Len(s) - 1), cutset)
    ELSE s

Trim(s, cutset) == TrimRight(TrimLeft(s, cutset), cutset)

\* strings.TrimSpace
TrimSpace(s) == Trim(s, {" ", "\t", "\r"})

\* strings.HasPrefix / strings.HasSuffix with a one-character affix
HasPrefix(s, c) == s # <<>> /\ s[1] = c

HasSuffix(s, c) == s # <<>> /\ s[Len(s)] = c

\* strings.SplitN(s, sep, 2): the text before and after the first sep, or s alone
SplitN2(s, sep) ==
    IF \E i \in DOMAIN s : s[i] = sep
    THEN LET i == CHOOSE j \in DOMAIN s : s[j] = sep /\ \A h \in 1..(j - 1) : s[h] # sep
         IN  << SubSeq(s, 1, i - 1), SubSeq(s, i + 1, Len(s)) >>
    ELSE << s >>

\* fmt.Sprintf("%d", n)
RECURSIVE FormatNat(_)
FormatNat(n) ==
    IF n < 10 THEN << Digits[n + 1] >> ELSE Append(FormatNat(n \div 10), Digits[(n % 10) + 1])

FormatInt(n) == IF n < 0 THEN <<"-">> \o FormatNat(0 - n) ELSE FormatNat(n)

\* fmt.Sprintf("%t", b)
FormatBool(b) == IF b THEN <<"t","r","u","e">> ELSE <<"f","a","l","s","e">>

\* strconv.Atoi: an optional sign, then one or more decimal digits
RECURSIVE DigitsValue(_)
DigitsValue(s) ==
    IF s = <<>> THEN 0
    ELSE DigitsValue(SubSeq(s, 1, Len(s) - 1)) * 10 + (IndexIn(s[Len(s)], Digits) - 1)

AtoiBody(s) == IF s # <<>> /\ s[1] \in {"+", "-"} THEN Tail(s) ELSE s

AtoiOk(s) == AtoiBody(s) # <<>> /\ \A i \in DOMAIN AtoiBody(s) : AtoiBody(s)[i] \in Range(Digits)

AtoiValue(s) ==
    IF s[1] = "-" THEN 0 - DigitsValue(AtoiBody(s)) ELSE DigitsValue(AtoiBody(s))

\* ------------------------------------------------- values of interface{}

\* A dynamically typed value: t is its type, and the field of that type holds it.
StrVal(s) == [t |-> "string", s |-> s, i |-> 0, b |-> FALSE]

IntVal(n) == [t |-> "int", s |-> <<>>, i |-> n, b |-> FALSE]

BoolVal(b) == [t |-> "bool", s |-> <<>>, i |-> 0, b |-> b]

\* ------------------------------------------------------------------ state

VARIABLES
    pc,             \* where start-up stands: "vars", "bindings", "init", "open", "scan", "main", "panic"
    env,            \* the process environment: variable name -> value, for the variables set
    fsys,           \* what the file system and the OS answer during discovery
    configFile,     \* the path getConfigFilePath returned ("" when none)
    err,            \* init's err: "nil", or which call failed ("path", "open", "scan")
    warnings,       \* the warnings init printed
    config,         \* the store: section -> key -> value
    currentSection, \* parseIniFile's current section
    scanned,        \* the lines scanner.Scan has delivered
    bindings,       \* the package-level variables APP_NAME .. APP_DEBUG
    call            \* the last accessor call made after start-up, with its result

vars == << pc, env, fsys, configFile, err, warnings, config, currentSection, scanned, bindings, call >>

EmptyMap == << >>

ExecConfigPath == "EXECDIR/config.ini"

WdConfigPath == "WD/config/config.ini"

\* -------------------------------------------------------------- accessors

\* envKey of GetConfig: APP_<SECTION>_<KEY>, upper-cased
EnvKey(section, key) == <<"A","P","P","_">> \o ToUpper(section) \o <<"_">> \o ToUpper(key)

\* GetConfig reading the variable with os.Getenv, which cannot tell an empty
\* variable from an unset one
GetConfig_EmptyEnvIgnored(section, key, defaultValue) ==
    IF EnvKey(section, key) \in DOMAIN env /\ env[EnvKey(section, key)] # <<>>
    THEN StrVal(env[EnvKey(section, key)])
    ELSE IF section \in DOMAIN config /\ key \in DOMAIN config[section]
         THEN StrVal(config[section][key])
         ELSE defaultValue

GetConfig(section, key, defaultValue) ==
    IF EnvKey(section, key) \in DOMAIN env
    THEN StrVal(env[EnvKey(section, key)])
    ELSE IF section \in DOMAIN config /\ key \in DOMAIN config[section]
         THEN StrVal(config[section][key])
         ELSE defaultValue

\* getIntConfig dropping Atoi's error: the zero value on a parse failure
getIntConfig_ZeroOnFailure(section, key, defaultValue) ==
    LET value == GetConfig(section, key, StrVal(FormatInt(defaultValue)))
    IN  IF value.t # "string" THEN defaultValue
        ELSE IF ~AtoiOk(value.s) THEN 0
        ELSE AtoiValue(value.s)

getIntConfig(section, key, defaultValue) ==
    LET value == GetConfig(section, key, StrVal(FormatInt(defaultValue)))
    IN  IF value.t # "string" THEN defaultValue
        ELSE IF ~AtoiOk(value.s) THEN defaultValue
        ELSE AtoiValue(value.s)

\* getBoolConfig without strings.ToLower
getBoolConfig_CaseSensitive(section, key, defaultValue) ==
    LET value == GetConfig(section, key, StrVal(FormatBool(defaultValue)))
        strVal == TrimSpace(value.s)
    IN  IF value.t # "string" THEN defaultValue
        ELSE IF strVal \in { <<"t","r","u","e">>, <<"1">>, <<"y","e","s">>, <<"o","n">> } THEN TRUE
        ELSE IF strVal \in { <<"f","a","l","s","e">>, <<"0">>, <<"n","o">>, <<"o","f","f">> } THEN FALSE
        ELSE defaultValue

getBoolConfig(section, key, defaultValue) ==
    LET value == GetConfig(section, key, StrVal(FormatBool(defaultValue)))
        strVal == ToLower(TrimSpace(value.s))
    IN  IF value.t # "string" THEN defaultValue
        ELSE IF strVal \in { <<"t","r","u","e">>, <<"1">>, <<"y","e","s">>, <<"o","n">> } THEN TRUE
        ELSE IF strVal \in { <<"f","a","l","s","e">>, <<"0">>, <<"n","o">>, <<"o","f","f">> } THEN FALSE
        ELSE defaultValue

\* The package-level variables before their initializers have run
ZeroBindings ==
    [ APP_NAME |-> <<>>, APP_HOST |-> <<>>, APP_LOG_PATH |-> <<>>,
      CONTAINER_LOG_PATH |-> <<>>, DOCKER_IMAGE_NAME |-> <<>>,
      DOCKER_CONTAINER_NAME |-> <<>>, APP_PORT |-> 0, APP_DEBUG |-> FALSE ]

DefaultPort == 50100

\* The initializers of APP_NAME .. APP_DEBUG
ComputeBindings ==
    [ APP_NAME |-> GetConfig(<<"a","p","p">>, <<"n","a","m","e">>, StrVal(<<"f","l","a","s","k","-","e","c","h","o">>)).s,
      APP_HOST |-> GetConfig(<<"s","e","r","v","e","r">>, <<"h","o","s","t">>, StrVal(<<"0",".","0",".","0",".","0">>)).s,
      APP_LOG_PATH |-> GetConfig(<<"s","e","r","v","e","r">>, <<"l","o","g","_","p","a","t","h">>, StrVal(<<"/","a","p","p","/","l","o","g">>)).s,
      CONTAINER_LOG_PATH |-> GetConfig(<<"s","e","r","v","e","r">>, <<"c","o","n","t","a","i","n","e","r","_","l","o","g","_","p","a","t","h">>, StrVal(<<"/","v","a","r","/","l","o","g">>)).s,
      DOCKER_IMAGE_NAME |-> GetConfig(<<"d","o","c","k","e","r">>, <<"i","m","a","g","e","_","n","a","m","e">>, StrVal(<<"f","l","a","s","k","-","e","c","h","o">>)).s,
      DOCKER_CONTAINER_NAME |-> GetConfig(<<"d","o","c","k","e","r">>, <<"c","o","n","t","a","i","n","e","r","_","n","a","m","e">>, StrVal(<<"f","l","a","s","k","-","e","c","h","o","-","c","o","n","t","a","i","n","e","r">>)).s,
      APP_PORT |-> getIntConfig(<<"a","p","p">>, <<"p","o","r","t">>, DefaultPort),
      APP_DEBUG |-> getBoolConfig(<<"a","p","p">>, <<"d","e","b","u","g">>, FALSE) ]

\* What PrintAllConfigs prints, in its order
PrintedConfigs ==
    << StrVal(bindings.APP_NAME), IntVal(bindings.APP_PORT), StrVal(bindings.APP_HOST),
       BoolVal(bindings.APP_DEBUG), StrVal(bindings.APP_LOG_PATH),
       StrVal(bindings.CONTAINER_LOG_PATH), StrVal(bindings.DOCKER_IMAGE_NAME),
       StrVal(bindings.DOCKER_CONTAINER_NAME) >>

\* ---------------------------------------------------------------- parsing

\* A trimmed line that the scan loop skips: blank, or a comment
IsSkipped(line) == line = <<>> \/ HasPrefix(line, ";") \/ HasPrefix(line, "#")

\* A trimmed line that opens a section
IsHeader(line) == HasPrefix(line, "[") /\ HasSuffix(line, "]")

HeaderName(line) == TrimSpace(SubSeq(line, 2, Len(line) - 1))

\* A trimmed line that is a key/value pair
IsKeyValue(line) == ~IsSkipped(line) /\ ~IsHeader(line) /\ Len(SplitN2(line, "=")) = 2

LineKey(line) == TrimSpace(SplitN2(line, "=")[1])

\* LineValue without the removal of quotes
LineValue_KeepsQuotes(line) == TrimSpace(SplitN2(line, "=")[2])

LineValue(line) == Trim(TrimSpace(SplitN2(line, "=")[2]), {"\"", "'"})

\* config[section][key] = value
SetEntry(cfg, section, key, value) == [cfg EXCEPT ![section] = (key :> value) @@ @]

\* OpenSection without the test for an existing section: a header starts the section afresh
OpenSection_Resets(cfg, name) == (name :> EmptyMap) @@ cfg

\* if _, exists := config[name]; !exists { config[name] = make(map) }
OpenSection(cfg, name) == IF name \in DOMAIN cfg THEN cfg ELSE (name :> EmptyMap) @@ cfg

\* getConfigFilePath probing the working directory before the executable's
getConfigFilePath_WdFirst ==
    IF fsys.executableErr THEN [path |-> "", err |-> TRUE]
    ELSE IF fsys.getwdErr THEN [path |-> "", err |-> TRUE]
    ELSE IF fsys.wdConfig THEN [path |-> WdConfigPath, err |-> FALSE]
    ELSE IF fsys.execConfig THEN [path |-> ExecConfigPath, err |-> FALSE]
    ELSE [path |-> "", err |-> TRUE]

\* getConfigFilePath: the path, or err
getConfigFilePath ==
    IF fsys.executableErr THEN [path |-> "", err |-> TRUE]
    ELSE IF fsys.execConfig THEN [path |-> ExecConfigPath, err |-> FALSE]
    ELSE IF fsys.getwdErr THEN [path |-> "", err |-> TRUE]
    ELSE IF fsys.wdConfig THEN [path |-> WdConfigPath, err |-> FALSE]
    ELSE [path |-> "", err |-> TRUE]

\* ------------------------------------------------------------------ start

\* The file system and the OS as the process finds them:
\*   executableErr  os.Executable fails
\*   execConfig     config.ini exists in the directory of the executable
\*   getwdErr       os.Getwd fails
\*   wdConfig       config/config.ini exists in the working directory
FsStates ==
    [ executableErr : BOOLEAN, execConfig : BOOLEAN, getwdErr : BOOLEAN, wdConfig : BOOLEAN ]

NoCall == [ fn |-> "none", section |-> <<>>, key |-> <<>>, def |-> IntVal(0), ret |-> IntVal(0), out |-> <<>> ]

\* The process before package initialization, in environment e and file system f
Start(e, f) ==
    /\ pc = "vars"
    /\ env = e
    /\ fsys = f
    /\ configFile = ""
    /\ err = "nil"
    /\ warnings = <<>>
    /\ config = EmptyMap
    /\ currentSection = <<>>
    /\ scanned = <<>>
    /\ bindings = ZeroBindings
    /\ call = NoCall

\* ---------------------------------------------------------------- actions

\* var config = make(map[string]map[string]string)
MakeConfig ==
    /\ pc = "vars"
    /\ config' = EmptyMap
    /\ pc' = "bindings"
    /\ UNCHANGED << env, fsys, configFile, err, warnings, currentSection, scanned, bindings, call >>

\* The initializers of the package-level variables, which run before init()
InitBindings ==
    /\ pc = "bindings"
    /\ bindings' = ComputeBindings
    /\ pc' = "init"
    /\ UNCHANGED << env, fsys, configFile, err, warnings, config, currentSection, scanned, call >>

\* init(): the call of getConfigFilePath and the return on its error
InitGetPath ==
    /\ pc = "init"
    /\ configFile' = getConfigFilePath.path
    /\ IF getConfigFilePath.err
       THEN /\ err' = "path"
            /\ warnings' = Append(warnings, "path")
            /\ pc' = "main"
       ELSE /\ UNCHANGED << err, warnings >>
            /\ pc' = "open"
    /\ UNCHANGED << env, fsys, config, currentSection, scanned, bindings, call >>

\* parseIniFile: os.Open, and on success the scanner with currentSection = ""
ParseOpen(openErr) ==
    /\ pc = "open"
    /\ IF openErr
       THEN /\ err' = "open"
            /\ warnings' = Append(warnings, "parse")
            /\ pc' = "main"
            /\ UNCHANGED currentSection
       ELSE /\ UNCHANGED << err, warnings >>
            /\ currentSection' = <<>>
            /\ pc' = "scan"
    /\ UNCHANGED << env, fsys, configFile, config, scanned, bindings, call >>

\* One turn of the scan loop on the line text
ScanLine(text) ==
    /\ pc = "scan"
    /\ scanned' = Append(scanned, text)
    /\ LET line == TrimSpace(text)
       IN  IF IsSkipped(line)
           THEN UNCHANGED << config, currentSection, pc >>
           ELSE IF IsHeader(line)
           THEN /\ currentSection' = HeaderName(line)
                /\ config' = OpenSection(config, HeaderName(line))
                /\ pc' = pc
           ELSE IF Len(SplitN2(line, "=")) # 2
           THEN UNCHANGED << config, currentSection, pc >>
           ELSE IF currentSection = <<>>
           THEN UNCHANGED << config, currentSection, pc >>
           ELSE IF currentSection \in DOMAIN config
           THEN /\ config' = SetEntry(config, currentSection, LineKey(line), LineValue(line))
                /\ UNCHANGED << currentSection, pc >>
           ELSE \* assignment to an entry of a nil map
                /\ pc' = "panic"
                /\ UNCHANGED << config, currentSection >>
    /\ UNCHANGED << env, fsys, configFile, err, warnings, bindings, call >>

\* scanner.Scan() returns false at the end of the file: parseIniFile returns nil
ScanEOF ==
    /\ pc = "scan"
    /\ pc' = "main"
    /\ UNCHANGED << env, fsys, configFile, err, warnings, config, currentSection, scanned, bindings, call >>

\* ScanFail throwing away what was parsed before the failure
ScanFail_DropsStore ==
    /\ pc = "scan"
    /\ err' = "scan"
    /\ warnings' = Append(warnings, "parse")
    /\ config' = EmptyMap
    /\ pc' = "main"
    /\ UNCHANGED << env, fsys, configFile, currentSection, scanned, bindings, call >>

\* scanner.Scan() returns false on a read error or an over-long line:
\* parseIniFile returns scanner.Err() and init prints the warning
ScanFail ==
    /\ pc = "scan"
    /\ err' = "scan"
    /\ warnings' = Append(warnings, "parse")
    /\ pc' = "main"
    /\ UNCHANGED << env, fsys, configFile, config, currentSection, scanned, bindings, call >>

\* CallGetConfig creating the section it looks up, as an auto-vivifying map would
CallGetConfig_CreatesSection(section, key, defaultValue) ==
    /\ pc = "main"
    /\ call' = [ fn |-> "GetConfig", section |-> section, key |-> key, def |-> defaultValue,
                 ret |-> GetConfig(section, key, defaultValue), out |-> <<>> ]
    /\ config' = OpenSection(config, section)
    /\ UNCHANGED << pc, env, fsys, configFile, err, warnings, currentSection, scanned, bindings >>

\* A call of GetConfig by the program after start-up
CallGetConfig(section, key, defaultValue) ==
    /\ pc = "main"
    /\ call' = [ fn |-> "GetConfig", section |-> section, key |-> key, def |-> defaultValue,
                 ret |-> GetConfig(section, key, defaultValue), out |-> <<>> ]
    /\ UNCHANGED << pc, env, fsys, configFile, err, warnings, config, currentSection, scanned, bindings >>

CallGetIntConfig(section, key, defaultValue) ==
    /\ pc = "main"
    /\ call' = [ fn |-> "getIntConfig", section |-> section, key |-> key, def |-> IntVal(defaultValue),
                 ret |-> IntVal(getIntConfig(section, key, defaultValue)), out |-> <<>> ]
    /\ UNCHANGED << pc, env, fsys, configFile, err, warnings, config, currentSection, scanned, bindings >>

CallGetBoolConfig(section, key, defaultValue) ==
    /\ pc = "main"
    /\ call' = [ fn |-> "getBoolConfig", section |-> section, key |-> key, def |-> BoolVal(defaultValue),
                 ret |-> BoolVal(getBoolConfig(section, key, defaultValue)), out |-> <<>> ]
    /\ UNCHANGED << pc, env, fsys, configFile, err, warnings, config, currentSection, scanned, bindings >>

CallPrintAllConfigs ==
    /\ pc = "main"
    /\ call' = [ fn |-> "PrintAllConfigs", section |-> <<>>, key |-> <<>>, def |-> IntVal(0),
                 ret |-> IntVal(0), out |-> PrintedConfigs ]
    /\ UNCHANGED << pc, env, fsys, configFile, err, warnings, config, currentSection, scanned, bindings >>

\* ----------------------------------------------------------- input sets

\* Every environment that sets a subset of names to values of vals
Envs(names, vals) == UNION { [D -> vals] : D \in SUBSET names }

NoEnv == << >>

MaxLines == 2

\* -- the whole life of the process, on a small file
LifeEnvNames == { <<"A","P","P","_","A","P","P","_","P","O","R","T">> }

LifeEnvVals == { <<>>, <<"9">> }

LifeLines ==
    { <<"[","a","p","p","]">>, <<"n","a","m","e"," ","="," ","w","e","b">>, <<"p","o","r","t"," ","="," ","8","0","8","0">>, <<"d","e","b","u","g"," ","="," ","Y","E","S">>, <<"[","s","e","r","v","e","r","]">>, <<"h","o","s","t","=","h">> }

LifeSections == { <<"a","p","p">>, <<"d","b">> }

LifeKeys == { <<"p","o","r","t">> }

LifeDefaults == { StrVal(<<"d">>) }

Init == \E e \in Envs(LifeEnvNames, LifeEnvVals), f \in FsStates : Start(e, f)

Next ==
    \/ MakeConfig
    \/ InitBindings
    \/ InitGetPath
    \/ \E openErr \in BOOLEAN : ParseOpen(openErr)
    \/ \E text \in LifeLines : Len(scanned) < MaxLines /\ ScanLine(text)
    \/ ScanEOF
    \/ ScanFail
    \/ \E s \in LifeSections, k \in LifeKeys, d \in LifeDefaults : CallGetConfig(s, k, d)
    \/ \E s \in LifeSections, k \in LifeKeys : CallGetIntConfig(s, k, DefaultPort)
    \/ \E s \in LifeSections, k \in LifeKeys : CallGetBoolConfig(s, k, FALSE)
    \/ CallPrintAllConfigs

Spec == Init /\ [][Next]_vars

\* -- parseIniFile alone, on files of every shape of line
AllOk == [ executableErr |-> FALSE, execConfig |-> TRUE, getwdErr |-> FALSE, wdConfig |-> FALSE ]

MaxParseLines == 3

ParseLines ==
    { <<"[","a","p","p","]">>, <<" ","["," ","d","b"," ","]"," ">>, <<"[","]">>,
      <<>>, <<"#"," ","k"," ","="," ","v">>, <<";"," ","[","a","p","p","]">>, <<"j","u","n","k">>,
      <<"k","=","v">>, <<" "," ","k"," "," ","="," "," ","w"," "," ">>, <<"j","=","a","=","b">>, <<"=","v">>,
      <<"k"," ","="," ","\"">>, <<"k"," ","="," ","\"","m","y"," ","a","p","p","\"">>, <<"j"," ","="," ","'","w","'">>, <<"k"," ","="," ","\"","w">>, <<"k"," ","="," ","'","w","\"">>,
      <<"k"," ","="," ","\"","\"","w","\"","\"">>, <<"j"," ","="," ","\""," ","w"," ","\"">>, <<"k"," ","="," ","w","\"","x">> }

InitParse == Start(NoEnv, AllOk)

NextParse ==
    \/ MakeConfig
    \/ InitBindings
    \/ InitGetPath
    \/ ParseOpen(FALSE)
    \/ \E text \in ParseLines : Len(scanned) < MaxParseLines /\ ScanLine(text)
    \/ ScanEOF
    \/ ScanFail

SpecParse == InitParse /\ [][NextParse]_vars

\* -- the accessors, on values of every shape from the environment and the file
LookupEnvNames == { <<"A","P","P","_","A","P","P","_","P","O","R","T">>, <<"A","P","P","_","A","P","P","_","D","E","B","U","G">> }

LookupEnvVals == { <<>>, <<"+","7">>, <<" ","8">>, <<"1">>, <<" ","O","n"," ">>, <<"F","A","L","S","E">>, <<"m","a","y","b","e">> }

\* The environments with at most one of the variables set
LookupEnvs == { NoEnv } \cup { (n :> v) : n \in LookupEnvNames, v \in LookupEnvVals }

LookupLines ==
    { <<"[","a","p","p","]">>, <<"p","o","r","t"," ","="," ","8","0","8","0">>, <<"p","o","r","t"," ","="," ","n","o","t","-","a","-","n","u","m","b","e","r">>,
      <<"d","e","b","u","g"," ","="," ","Y","E","S">>, <<"d","e","b","u","g"," ","="," ","o","f","f">>, <<"d","e","b","u","g"," ","="," ","\""," ","o","n"," ","\"">> }

\* The (section, key) pairs looked up: as in the file, and in another case
LookupPairs == { << <<"a","p","p">>, <<"p","o","r","t">> >>, << <<"A","p","p">>, <<"p","o","r","t">> >>, << <<"a","p","p">>, <<"P","o","r","t">> >> }

LookupIntPairs == { << <<"a","p","p">>, <<"p","o","r","t">> >>, << <<"A","p","p">>, <<"p","o","r","t">> >> }

LookupBoolPairs == { << <<"a","p","p">>, <<"d","e","b","u","g">> >> }

LookupDefaults == { StrVal(<<"d">>), IntVal(7), BoolVal(TRUE) }

LookupIntDefaults == { 7, -3 }

InitLookup == \E e \in LookupEnvs : Start(e, AllOk)

NextLookup ==
    \/ MakeConfig
    \/ InitBindings
    \/ InitGetPath
    \/ ParseOpen(FALSE)
    \/ \E text \in LookupLines : Len(scanned) < MaxLines /\ ScanLine(text)
    \/ ScanEOF
    \/ \E p \in LookupPairs, d \in LookupDefaults : CallGetConfig(p[1], p[2], d)
    \/ \E p \in LookupIntPairs, d \in LookupIntDefaults : CallGetIntConfig(p[1], p[2], d)
    \/ \E p \in LookupBoolPairs, d \in BOOLEAN : CallGetBoolConfig(p[1], p[2], d)

SpecLookup == InitLookup /\ [][NextLookup]_vars

\* ------------------------------------------------- the store of a file

\* The store that a file holding `lines` denotes, stated over the whole file:
\* a section for every header, and in it, for every key assigned under that
\* header, the value of the last assignment. A header with an empty name opens
\* no section context, as currentSection = "" stands for "no section".
Trimmed(lines, i) == TrimSpace(lines[i])

HeaderLines(lines) == { i \in DOMAIN lines : ~IsSkipped(Trimmed(lines, i)) /\ IsHeader(Trimmed(lines, i)) }

KeyValueLines(lines) == { i \in DOMAIN lines : IsKeyValue(Trimmed(lines, i)) }

HeadersBefore(lines, i) == { j \in HeaderLines(lines) : j < i }

NearestHeader(lines, i) ==
    CHOOSE j \in HeadersBefore(lines, i) : \A h \in HeadersBefore(lines, i) : h <= j

\* The key/value lines that lie under a header named s
LinesUnder(lines, s) ==
    { i \in KeyValueLines(lines) :
        /\ HeadersBefore(lines, i) # {}
        /\ HeaderName(Trimmed(lines, NearestHeader(lines, i))) = s }

LastAssignment(lines, under, k) ==
    CHOOSE i \in under :
        /\ LineKey(Trimmed(lines, i)) = k
        /\ \A j \in under : LineKey(Trimmed(lines, j)) = k => j <= i

SectionNames(lines) == { HeaderName(Trimmed(lines, j)) : j \in HeaderLines(lines) }

ParsedStore(lines) ==
    [ s \in SectionNames(lines) |->
        LET under == IF s = <<>> THEN {} ELSE LinesUnder(lines, s)
        IN  [ k \in { LineKey(Trimmed(lines, i)) : i \in under } |->
                LineValue(Trimmed(lines, LastAssignment(lines, under, k))) ] ]

\* The result the precedence env > store > default gives on store cfg
Resolved(cfg, section, key, defaultValue) ==
    IF EnvKey(section, key) \in DOMAIN env THEN StrVal(env[EnvKey(section, key)])
    ELSE IF section \in DOMAIN cfg /\ key \in DOMAIN cfg[section] THEN StrVal(cfg[section][key])
    ELSE defaultValue

InitReturned == pc = "main"

\* ------------------------------------------------------------------ C1

StringBindings ==
    { [ name |-> "APP_NAME", section |-> <<"a","p","p">>, key |-> <<"n","a","m","e">> ],
      [ name |-> "APP_HOST", section |-> <<"s","e","r","v","e","r">>, key |-> <<"h","o","s","t">> ],
      [ name |-> "APP_LOG_PATH", section |-> <<"s","e","r","v","e","r">>, key |-> <<"l","o","g","_","p","a","t","h">> ],
      [ name |-> "CONTAINER_LOG_PATH", section |-> <<"s","e","r","v","e","r">>, key |-> <<"c","o","n","t","a","i","n","e","r","_","l","o","g","_","p","a","t","h">> ],
      [ name |-> "DOCKER_IMAGE_NAME", section |-> <<"d","o","c","k","e","r">>, key |-> <<"i","m","a","g","e","_","n","a","m","e">> ],
      [ name |-> "DOCKER_CONTAINER_NAME", section |-> <<"d","o","c","k","e","r">>, key |-> <<"c","o","n","t","a","i","n","e","r","_","n","a","m","e">> ] }

FileProvides(section, key) == section \in DOMAIN config /\ key \in DOMAIN config[section]

\* C1: the bindings are computed after the file has been parsed, so once
\* start-up is over and with no environment variable set, every binding whose
\* (section, key) the file provides equals the file's value (the integer it
\* denotes for APP_PORT, the boolean it denotes for APP_DEBUG).
C1_BindingsReadTheFile ==
    (InitReturned /\ env = NoEnv) =>
        /\ \A b \in StringBindings :
              FileProvides(b.section, b.key) => bindings[b.name] = config[b.section][b.key]
        /\ (FileProvides(<<"a","p","p">>, <<"p","o","r","t">>) /\ AtoiOk(config[<<"a","p","p">>][<<"p","o","r","t">>]))
              => bindings.APP_PORT = AtoiValue(config[<<"a","p","p">>][<<"p","o","r","t">>])
        /\ (FileProvides(<<"a","p","p">>, <<"d","e","b","u","g">>) /\ config[<<"a","p","p">>][<<"d","e","b","u","g">>] = <<"Y","E","S">>)
              => bindings.APP_DEBUG = TRUE

\* ------------------------------------------------------------------ C7

\* C7: initialization fails open. A failure to open the file or a failure of
\* the scan ends init with the parse warning, start-up never aborts, the store
\* is then the store of the lines scanned before the failure (empty when there
\* are none), and a later GetConfig resolves by env > that store > default.
C7_FailsOpen ==
    /\ pc # "panic"
    /\ err \in {"open", "scan"} =>
          /\ InitReturned
          /\ warnings = << "parse" >>
          /\ config = ParsedStore(scanned)
          /\ err = "open" => config = EmptyMap
          /\ call.fn = "GetConfig" =>
                call.ret = Resolved(ParsedStore(scanned), call.section, call.key, call.def)

\* A scan failed after a section and a key of it were stored, and a later
\* lookup found that key in the partial store.
C7_Witness ==
    /\ err = "scan"
    /\ \E s \in DOMAIN config : config[s] # EmptyMap
    /\ call.fn = "GetConfig"
    /\ EnvKey(call.section, call.key) \notin DOMAIN env
    /\ FileProvides(call.section, call.key)

\* ------------------------------------------------------------------ C8

DiscoveryDone == pc \in {"open", "scan", "main"}

NothingParsed ==
    /\ configFile = ""
    /\ err = "path"
    /\ warnings = << "path" >>
    /\ scanned = <<>>
    /\ config = EmptyMap
    /\ pc = "main"
    /\ (call.fn \in {"GetConfig", "getIntConfig", "getBoolConfig"}
            /\ EnvKey(call.section, call.key) \notin DOMAIN env) => call.ret = call.def

\* C8 as stated: <executable dir>/config.ini is returned whenever it exists,
\* otherwise <cwd>/config/config.ini whenever that exists, and when neither
\* exists nothing is parsed and the accessors return their defaults.
C8_AsStated ==
    DiscoveryDone =>
        /\ fsys.execConfig => configFile = ExecConfigPath
        /\ (~fsys.execConfig /\ fsys.wdConfig) => configFile = WdConfigPath
        /\ (~fsys.execConfig /\ ~fsys.wdConfig) => NothingParsed

\* C8, amended: the same when the OS calls that locate the two directories
\* succeed; when os.Executable fails, or the first file is absent and os.Getwd
\* fails, getConfigFilePath returns an error as it does when neither file
\* exists: a warning, nothing parsed, an empty store, defaults.
C8_Discovery ==
    DiscoveryDone =>
        /\ (~fsys.executableErr /\ fsys.execConfig) => configFile = ExecConfigPath
        /\ (~fsys.executableErr /\ ~fsys.execConfig /\ ~fsys.getwdErr /\ fsys.wdConfig)
              => configFile = WdConfigPath
        /\ (\/ fsys.executableErr
            \/ ~fsys.execConfig /\ fsys.getwdErr
            \/ ~fsys.execConfig /\ ~fsys.wdConfig) => NothingParsed

\* Both files exist, the first one was chosen and is being scanned.
C8_Witness ==
    /\ ~fsys.executableErr /\ fsys.execConfig /\ fsys.wdConfig /\ ~fsys.getwdErr
    /\ pc = "scan"
    /\ configFile = ExecConfigPath
    /\ scanned # <<>>

\* Only the second file exists and it was chosen.
C8_WitnessSecond ==
    /\ ~fsys.executableErr /\ ~fsys.execConfig /\ ~fsys.getwdErr /\ fsys.wdConfig
    /\ pc = "scan"
    /\ configFile = WdConfigPath

\* Neither file exists and an accessor with no environment override was called.
C8_WitnessNone ==
    /\ ~fsys.executableErr /\ ~fsys.getwdErr /\ ~fsys.execConfig /\ ~fsys.wdConfig
    /\ call.fn = "getIntConfig"
    /\ EnvKey(call.section, call.key) \notin DOMAIN env
    /\ call.ret = IntVal(DefaultPort)

\* ------------------------------------------------------------------ C9

\* C9: once init has returned, no step (no call of GetConfig, getIntConfig,
\* getBoolConfig or PrintAllConfigs) changes the store or the bindings.
C9_ReadOnlyAfterInit ==
    [][ InitReturned => (config' = config /\ bindings' = bindings) ]_vars

\* A lookup of an absent section was made on a store that holds a section.
C9_Witness ==
    /\ InitReturned
    /\ config # EmptyMap
    /\ call.fn = "GetConfig"
    /\ call.section \notin DOMAIN config

\* ------------------------------------------------------------------ C5

Quotes == { "\"", "'" }

Scanning == pc \in {"scan", "main"} /\ scanned # <<>>

LastLine == Trimmed(scanned, Len(scanned))

\* The last line scanned is a key/value line read inside a section
StoredKeyValue == Scanning /\ IsKeyValue(LastLine) /\ currentSection # <<>>

\* The place of the first '=' of a line that has one
FirstEq(line) == CHOOSE i \in DOMAIN line : line[i] = "=" /\ \A h \in 1..(i - 1) : line[h] # "="

TextLeft(line) == SubSeq(line, 1, FirstEq(line) - 1)

TextRight(line) == SubSeq(line, FirstEq(line) + 1, Len(line))

NoOuterSpace(s) == s = <<>> \/ (~IsSpace(s[1]) /\ ~IsSpace(s[Len(s)]))

NoOuterQuote(s) == s = <<>> \/ (s[1] \notin Quotes /\ s[Len(s)] \notin Quotes)

\* s with its outer whitespace removed: the one part of s without outer
\* whitespace that only whitespace surrounds
IsTrimOf(t, s) ==
    /\ NoOuterSpace(t)
    /\ \E a \in 0..Len(s) : \E b \in 0..(Len(s) - a) :
          /\ t = SubSeq(s, a + 1, Len(s) - b)
          /\ \A i \in 1..a : IsSpace(s[i])
          /\ \A i \in (Len(s) - b + 1)..Len(s) : IsSpace(s[i])

\* v is raw without the quote characters at its two ends
IsUnquoteOf(v, raw) ==
    /\ NoOuterQuote(v)
    /\ \E a \in 0..Len(raw) : \E b \in 0..(Len(raw) - a) :
          /\ v = SubSeq(raw, a + 1, Len(raw) - b)
          /\ \A i \in 1..a : raw[i] \in Quotes
          /\ \A i \in (Len(raw) - b + 1)..Len(raw) : raw[i] \in Quotes

\* raw is enclosed in one pair of the same quote character
EnclosedInPair(raw) == Len(raw) >= 2 /\ raw[1] \in Quotes /\ raw[Len(raw)] = raw[1]

StoredUnder(k) == config[currentSection][k]

\* C5 as stated: the value stored is the trimmed right-hand text without its one
\* enclosing pair of matching quotes, or that text unchanged when no such pair
\* encloses it, and it has no outer whitespace.
C5_AsStated ==
    StoredKeyValue =>
        \E k \in DOMAIN config[currentSection] : \E raw \in { TrimSpace(TextRight(LastLine)) } :
            /\ IsTrimOf(k, TextLeft(LastLine))
            /\ StoredUnder(k) = IF EnclosedInPair(raw) THEN SubSeq(raw, 2, Len(raw) - 1) ELSE raw
            /\ NoOuterSpace(StoredUnder(k))

\* C5, amended: the value stored is the trimmed right-hand text without any of
\* the quote characters (" or ', matching or not, however many) at its two
\* ends, so it has no outer quote character; a text with no quote at either end
\* is stored unchanged, and a text in one matching pair whose inside has no
\* outer quote loses exactly that pair. Whitespace inside the quotes is kept.
C5_QuotesTrimmed ==
    StoredKeyValue =>
        \E k \in DOMAIN config[currentSection] : \E raw \in { TextRight(LastLine) } :
            /\ IsTrimOf(k, TextLeft(LastLine))
            /\ \E t \in { SubSeq(raw, a, b) : a \in 1..(Len(raw) + 1), b \in 0..Len(raw) } :
                  /\ IsTrimOf(t, raw)
                  /\ IsUnquoteOf(StoredUnder(k), t)
                  /\ NoOuterQuote(t) => StoredUnder(k) = t
                  /\ (EnclosedInPair(t) /\ NoOuterQuote(SubSeq(t, 2, Len(t) - 1)))
                        => StoredUnder(k) = SubSeq(t, 2, Len(t) - 1)

\* A value in a matching pair of double quotes was stored without the pair.
C5_Witness ==
    /\ StoredKeyValue
    /\ EnclosedInPair(TrimSpace(TextRight(LastLine)))
    /\ LineKey(LastLine) \in DOMAIN config[currentSection]
    /\ StoredUnder(LineKey(LastLine)) = <<"m","y"," ","a","p","p">>

\* ------------------------------------------------------------------ C6

\* The store C6 describes: every key/value line belongs to the section of the
\* nearest header before it, whatever that header's name.
ClaimedStore(lines) ==
    [ s \in SectionNames(lines) |->
        [ k \in { LineKey(Trimmed(lines, i)) : i \in LinesUnder(lines, s) } |->
            LineValue(Trimmed(lines, LastAssignment(lines, LinesUnder(lines, s), k))) ] ]

\* C6: each key/value line is attached to the section opened by the nearest
\* header before it, and one with no header before it creates no entry.
C6_AttachedToNearestHeader ==
    pc \in {"scan", "main"} => config = ClaimedStore(scanned)

\* ------------------------------------------------------------------ C10

C10_WitnessLastWins ==
    /\ Len(scanned) = 3
    /\ currentSection \in DOMAIN config
    /\ {2, 3} \subseteq LinesUnder(scanned, currentSection)
    /\ LineKey(Trimmed(scanned, 2)) = LineKey(Trimmed(scanned, 3))
    /\ LineValue(Trimmed(scanned, 2)) # LineValue(Trimmed(scanned, 3))
    /\ config[currentSection][LineKey(Trimmed(scanned, 3))] = LineValue(Trimmed(scanned, 3))

\* ------------------------------------------------------------------ C2

\* The name of the environment variable of each (section, key) looked up,
\* spelled out
EnvNameOf(section, key) ==
    IF key \in { <<"p","o","r","t">>, <<"P","o","r","t">> } THEN <<"A","P","P","_","A","P","P","_","P","O","R","T">> ELSE <<"A","P","P","_","A","P","P","_","D","E","B","U","G">>

\* C2: GetConfig follows env > file > default. When APP_<SECTION>_<KEY> is set,
\* also to the empty string, the result is its raw string; otherwise, when
\* the store has section[key] under these exact names, that string; otherwise
\* the default, with its value and type.
C2_Precedence ==
    call.fn = "GetConfig" =>
        /\ EnvNameOf(call.section, call.key) \in DOMAIN env
              => call.ret = StrVal(env[EnvNameOf(call.section, call.key)])
        /\ (EnvNameOf(call.section, call.key) \notin DOMAIN env
                /\ FileProvides(call.section, call.key))
              => call.ret = StrVal(config[call.section][call.key])
        /\ (EnvNameOf(call.section, call.key) \notin DOMAIN env
                /\ ~FileProvides(call.section, call.key))
              => call.ret = call.def

\* The variable is set to the empty string, the file provides the key, and
\* GetConfig returned the empty string.
C2_Witness ==
    /\ call.fn = "GetConfig"
    /\ FileProvides(call.section, call.key)
    /\ EnvNameOf(call.section, call.key) \in DOMAIN env
    /\ env[EnvNameOf(call.section, call.key)] = <<>>
    /\ call.ret = StrVal(<<>>)

\* The file provides app.port, and a lookup of App.port, with no variable
\* set, returned an integer default as it was given.
C2_WitnessDefault ==
    /\ call.fn = "GetConfig"
    /\ FileProvides(<<"a","p","p">>, <<"p","o","r","t">>)
    /\ call.section = <<"A","p","p">> /\ call.key = <<"p","o","r","t">>
    /\ env = NoEnv
    /\ call.ret = IntVal(7)

\* ------------------------------------------------------------------ C3

\* The strings of the model that denote a base-10 integer, and the integer
IntegerDenoted == (<<"8","0","8","0">> :> 8080) @@ (<<"+","7">> :> 7) @@ (<<"1">> :> 1)

\* The string the environment or the file provides for the call, if any
Provided == EnvNameOf(call.section, call.key) \in DOMAIN env \/ FileProvides(call.section, call.key)

ProvidedString ==
    IF EnvNameOf(call.section, call.key) \in DOMAIN env
    THEN env[EnvNameOf(call.section, call.key)]
    ELSE config[call.section][call.key]

\* C3: getIntConfig returns the integer that the resolved string denotes, and
\* the default d itself when the string denotes none or when neither the
\* environment nor the file provides a value.
C3_IntAccessor ==
    call.fn = "getIntConfig" =>
        /\ call.ret.t = "int"
        /\ (Provided /\ ProvidedString \in DOMAIN IntegerDenoted)
              => call.ret.i = IntegerDenoted[ProvidedString]
        /\ (Provided /\ ProvidedString \notin DOMAIN IntegerDenoted) => call.ret.i = call.def.i
        /\ ~Provided => call.ret.i = call.def.i

\* The file value not-a-number gave the default.
C3_Witness ==
    /\ call.fn = "getIntConfig"
    /\ env = NoEnv
    /\ FileProvides(call.section, call.key)
    /\ config[call.section][call.key] = <<"n","o","t","-","a","-","n","u","m","b","e","r">>
    /\ call.ret = IntVal(7)

\* The file value 8080 gave 8080.
C3_WitnessParsed ==
    /\ call.fn = "getIntConfig"
    /\ env = NoEnv
    /\ FileProvides(call.section, call.key)
    /\ call.ret = IntVal(8080)

\* Nothing provided a value and the negative default came back.
C3_WitnessDefault ==
    /\ call.fn = "getIntConfig"
    /\ ~Provided
    /\ call.ret = IntVal(0 - 3)

\* ------------------------------------------------------------------ C4

\* The strings of the model that read as true and as false
TrueStrings == { <<"1">>, <<" ","O","n"," ">>, <<"Y","E","S">>, <<" ","o","n"," ">> }

FalseStrings == { <<"F","A","L","S","E">>, <<"o","f","f">> }

\* C4: getBoolConfig returns true for a resolved string that is one of true, 1,
\* yes, on after lower-casing and trimming, false for one of false, 0, no, off,
\* and the default b for every other string, the empty one included.
C4_BoolAccessor ==
    call.fn = "getBoolConfig" =>
        /\ call.ret.t = "bool"
        /\ (Provided /\ ProvidedString \in TrueStrings) => call.ret.b = TRUE
        /\ (Provided /\ ProvidedString \in FalseStrings) => call.ret.b = FALSE
        /\ (Provided /\ ProvidedString \notin TrueStrings \cup FalseStrings)
              => call.ret.b = call.def.b
        /\ ~Provided => call.ret.b = call.def.b

\* The file value YES gave true against the default false.
C4_Witness ==
    /\ call.fn = "getBoolConfig"
    /\ env = NoEnv
    /\ FileProvides(call.section, call.key)
    /\ config[call.section][call.key] = <<"Y","E","S">>
    /\ call.def = BoolVal(FALSE)
    /\ call.ret = BoolVal(TRUE)

\* The variable set to the empty string gave the default true.
C4_WitnessEmpty ==
    /\ call.fn = "getBoolConfig"
    /\ Provided
    /\ ProvidedString = <<>>
    /\ call.def = BoolVal(TRUE)
    /\ call.ret = BoolVal(TRUE)

====
